---- MODULE Spec2Model ----
(***************************************************************************)
(* Job / Case lifecycle and method dispatch of supervaizer.                *)
(*                                                                         *)
(* Agent.job_start, Agent._execute, Agent.job_stop, Agent.job_status and   *)
(* Agent.chat are translated from src/src/supervaizer/agent.py.  The       *)
(* modules supervaizer.lifecycle, supervaizer.job and                      *)
(* supervaizer.job_service are imported by the sources but not part of     *)
(* them: EntityLifecycle.handle_event, Job.add_response and the statuses   *)
(* are modelled from the specification (spec.md 3, 4.1, 4.4, 8).           *)
(***************************************************************************)
EXTENDS Integers, Sequences, FiniteSets, TLC

VARIABLES
    methods,             \* Agent.methods: the AgentMethods registry
    supervisor_account,  \* server.supervisor_account is not None
    job,                 \* the Job handed to the Agent: status and responses
    account_events,      \* events received by Account.send_event, in order
    finished,            \* number of service_job_finished invocations so far
    call,                \* what the last Agent operation did, as its caller and collaborators saw it
    calls,               \* number of Agent operations performed so far
    entity,              \* an entity with a status field, driven by EntityLifecycle
    lc,                  \* the last EntityLifecycle.handle_event call on entity
    kw,                  \* the keyword arguments job_start builds, with what they were built from
    case,                \* the Case: status, updates (references to objects), costs, delivery
    heap,                \* the CaseNodeUpdate objects the caller has created, by reference
    account_log,         \* the calls made on Account.send_start_case / send_update_case, in order
    ccall,               \* what the last Case operation did
    csteps,              \* number of Case operations performed so far
    vault,               \* the Agent's parameter definitions, os.environ, and the last remote update
    reg,                 \* the last AgentMethodsModel construction: its custom map and its outcome
    race                 \* the update() calls of two threads on the Case: where each one is

jobVars == <<methods, supervisor_account, job, account_events, finished, call, calls>>
lcVars == <<entity, lc>>
kwVars == <<kw>>
caseVars == <<case, heap, account_log, ccall, csteps>>
auxVars == <<vault, reg, race>>
vars == <<methods, supervisor_account, job, account_events, finished, call, calls, entity, lc,
          kw, case, heap, account_log, ccall, csteps, vault, reg,
          race>>

\* ---------------------------------------------------------------- bounds
MaxCalls == 2
MaxEvents == 3
MaxCaseOps == 4
MaxUpdates == 2

None == "None"

\* ------------------------------------------------------ lifecycle (spec.md 3, 4.1)
EntityStatus ==
    {"STOPPED", "IN_PROGRESS", "AWAITING", "COMPLETED", "FAILED", "CANCELLED", "CANCELLING"}

EntityEvents ==
    {"START_WORK", "INPUT_REQUESTED", "INPUT_RECEIVED", "SUCCESSFULLY_DONE",
     "FAILED_EVENT", "CANCEL_REQUESTED", "CANCELLED_EVENT"}

\* The transition table of the Lifecycle Engine: <<from, event, to>>.
EntityLifecycleTable ==
    { <<"STOPPED", "START_WORK", "IN_PROGRESS">>,
      <<"IN_PROGRESS", "INPUT_REQUESTED", "AWAITING">>,
      <<"AWAITING", "INPUT_RECEIVED", "IN_PROGRESS">>,
      <<"IN_PROGRESS", "SUCCESSFULLY_DONE", "COMPLETED">>,
      <<"IN_PROGRESS", "FAILED_EVENT", "FAILED">>,
      <<"IN_PROGRESS", "CANCEL_REQUESTED", "CANCELLING">>,
      <<"CANCELLING", "CANCELLED_EVENT", "CANCELLED">> }

\* A table that also lets a COMPLETED entity resume.
EntityLifecycleTable_reopen ==
    EntityLifecycleTable \cup {<<"COMPLETED", "INPUT_RECEIVED", "IN_PROGRESS">>}

\* EntityLifecycle.handle_event(entity, event): sets the entity's status to the
\* row's target and returns the prior status, or fails with TransitionError
\* and leaves the entity as it is.
handle_event_with(table, e, event) ==
    LET rows == {r \in table : r[1] = e.status /\ r[2] = event}
    IN  IF rows = {}
        THEN [entity |-> e, returned |-> None, error |-> "TransitionError"]
        ELSE [entity |-> [e EXCEPT !.status = (CHOOSE r \in rows : TRUE)[3]],
              returned |-> e.status, error |-> None]

handle_event_reopen(e, event) == handle_event_with(EntityLifecycleTable_reopen, e, event)

handle_event(e, event) == handle_event_with(EntityLifecycleTable, e, event)

\* ------------------------------------------------- registry and responses
\* A dict with string keys, or None in its place.
EmptyDict == [k \in {} |-> None]
Dict(items) == [is_none |-> FALSE, items |-> items]
NoDict == [is_none |-> TRUE, items |-> EmptyDict]

\* a | b on dicts: the keys of both, the value of b where both have the key.
Union(a, b) == [k \in DOMAIN a \cup DOMAIN b |-> IF k \in DOMAIN b THEN b[k] ELSE a[k]]

\* An AgentMethod descriptor: the dotted path of the callable, the static
\* params and is_async.
AgentMethodModel(method, params, is_async) ==
    [method |-> method, params |-> params, is_async |-> is_async]

AgentMethod(method, is_async) == AgentMethodModel(method, NoDict, is_async)

\* AgentMethods.chat is None.
NoMethod == AgentMethod(None, FALSE)

\* Keys of AgentMethods.custom in use, and the method names callers pass.
CustomKeys == {"custom-1"}
MethodNames == {"job_start", "custom-1", "custom-2"}

\* JobResponse{status, message, error}; job_id and payload play no part in
\* the control flow of the Agent.
JobResponse(status, message, error) ==
    [is_job_response |-> TRUE, status |-> status, message |-> message, error |-> error]

\* No value (None), and a value that is not a JobResponse (a dict, a str).
NoResponse == [is_job_response |-> FALSE, status |-> None, message |-> None, error |-> None]
NotAJobResponse == [is_job_response |-> FALSE, status |-> None, message |-> "dict", error |-> None]

\* Exceptions a method body raises.
ExecErrors == {"ValueError", "RuntimeError"}

\* What the callable named by a descriptor does when it is resolved and called:
\* the reference does not resolve, the body raises, or it returns a value.
Behaviours ==
    {[kind |-> "unresolvable", exc |-> "ImportError", value |-> NoResponse]}
    \cup {[kind |-> "raises", exc |-> x, value |-> NoResponse] : x \in ExecErrors}
    \cup {[kind |-> "returns", exc |-> None, value |-> JobResponse(s, "method result", None)] :
            s \in EntityStatus}
    \cup {[kind |-> "returns", exc |-> None, value |-> NotAJobResponse]}

\* What the callables behind job_stop, job_status and chat do: one case of each kind.
DirectBehaviours ==
    {b \in Behaviours : /\ b.exc \in {None, "ImportError", "ValueError"}
                        /\ b.value.status \in {None, "COMPLETED"}}

\* Job.add_response(response): appends to the log; the Job's status follows
\* the response ("per the response"), without going through the lifecycle.
add_response(j, response) ==
    [j EXCEPT !.responses = Append(@, response), !.status = response.status]

\* ------------------------------------------------------- one Agent operation
\* The frame of an operation in progress: the Job, the effects so far in
\* order, and what the collaborators saw.
Frame(j) ==
    [job |-> j, trace |-> <<>>, events |-> <<>>, hooks |-> 0,
     raised |-> None, origin |-> None, returned |-> NoResponse, invoked |-> None,
     args |-> EmptyDict, params |-> EmptyDict, logAtInvoke |-> <<>>, logAtHook |-> <<>>]

\* An exception leaves the code at `origin`.
Raise(f, exc, origin) ==
    [f EXCEPT !.raised = exc, !.origin = origin, !.trace = Append(@, "raise")]

\* Agent._execute(action, params): resolve the callable, call it, and check
\* that the result is a JobResponse.
\* The result handed back without the isinstance check.
_execute_unchecked(f, action, params, beh) ==
    IF beh.kind = "unresolvable"
    THEN Raise(f, beh.exc, "resolve")
    ELSE LET g == [f EXCEPT !.invoked = action, !.params = params,
                            !.trace = Append(@, "invoke"),
                            !.logAtInvoke = f.job.responses]
         IN  IF beh.kind = "raises"
             THEN Raise(g, beh.exc, "method")
             ELSE [g EXCEPT !.returned = beh.value]

_execute(f, action, params, beh) ==
    IF beh.kind = "unresolvable"
    THEN Raise(f, beh.exc, "resolve")
    ELSE LET g == [f EXCEPT !.invoked = action, !.params = params,
                            !.trace = Append(@, "invoke"),
                            !.logAtInvoke = f.job.responses]
         IN  IF beh.kind = "raises"
             THEN Raise(g, beh.exc, "method")
             ELSE IF ~beh.value.is_job_response
                  THEN Raise(g, "TypeError", "shape")
                  ELSE [g EXCEPT !.returned = beh.value]

\* The statuses after which job_start records the response and reports the
\* Job as finished.
FinishStatuses_noCancelling == {"COMPLETED", "FAILED", "CANCELLED"}

FinishStatuses == {"COMPLETED", "FAILED", "CANCELLED", "CANCELLING"}

\* The statuses after which job_start records the response and leaves the Job open.
AwaitStatuses == {"AWAITING"}

\* job_start, the descriptor to dispatch: methods.job_start, or
\* methods.custom[method_name], which raises KeyError for an unknown key (or
\* TypeError when custom is None; both leave job_start the same way).
job_start_action(method_name) ==
    IF method_name = "job_start"
    THEN methods.job_start
    ELSE IF method_name \in DOMAIN methods.custom
         THEN methods.custom[method_name]
         ELSE NoMethod

\* job_start, the classification of the status of the response the dispatch
\* returned: finished (recorded, then the job-finished hook), awaiting
\* (recorded) or neither (a warning is logged).
job_start_classify_with(g, hook_ok, finish, await) ==
    IF g.returned.status \in finish
    THEN LET h == [g EXCEPT !.job = add_response(@, g.returned),
                            !.trace = Append(@, "add_response")]
             k == [h EXCEPT !.hooks = @ + 1,
                            !.trace = Append(@, "service_job_finished"),
                            !.logAtHook = h.job.responses]
         IN  IF hook_ok THEN k ELSE Raise(k, "HookError", "hook")
    ELSE IF g.returned.status \in await
         THEN [g EXCEPT !.job = add_response(@, g.returned),
                        !.trace = Append(@, "add_response")]
         ELSE g

\* AWAITING taken for a finished status.
job_start_classify_awaitingFinishes(g, hook_ok) ==
    job_start_classify_with(g, hook_ok, FinishStatuses \cup AwaitStatuses, {})

\* Every returned response recorded.
job_start_classify_recordsAll(g, hook_ok) ==
    job_start_classify_with(g, hook_ok, FinishStatuses, EntityStatus)

job_start_classify(g, hook_ok) ==
    job_start_classify_with(g, hook_ok, FinishStatuses, AwaitStatuses)

\* The static params laid over the arguments of the call.
job_start_params_staticWins(params, job_fields, context, agent_parameters) ==
    LET method_params == IF params.is_none THEN EmptyDict ELSE params.items
    IN  Union(Union(Union([k \in {"agent_parameters"} |-> agent_parameters],
                          [k \in {"context"} |-> context]),
                    [k \in {"fields"} |-> job_fields]),
              method_params)

\* job_start, the keyword arguments of the method: (action.params or {})
\* | {"fields": job_fields} | {"context": context}
\* | {"agent_parameters": job.agent_parameters}.
job_start_params(params, job_fields, context, agent_parameters) ==
    LET method_params == IF params.is_none THEN EmptyDict ELSE params.items
    IN  Union(Union(Union(method_params,
                          [k \in {"fields"} |-> job_fields]),
                    [k \in {"context"} |-> context]),
              [k \in {"agent_parameters"} |-> agent_parameters])

\* The arguments of the job_start calls on the Job: job_fields, context and
\* the Job's agent_parameters.
CallArgs ==
    [job_fields |-> "job_fields of the call", context |-> "context of the call",
     agent_parameters |-> "agent_parameters of the job"]

\* job_start, the body of its try statement: the is_async test, the dispatch
\* and the classification.
job_start_try(f, action, beh, hook_ok) ==
    IF methods.job_start.is_async
    THEN Raise(f, "NotImplementedError", "async")
    ELSE LET params == job_start_params(action.params, CallArgs.job_fields,
                                        CallArgs.context, CallArgs.agent_parameters)
             g == _execute(f, action.method, params, beh)
         IN  IF g.raised # None THEN g ELSE job_start_classify(g, hook_ok)

\* The failure recorded without the exception.
job_start_except_noError(f) ==
    [f EXCEPT !.job = add_response(@, JobResponse("FAILED", "Job execution failed", None)),
              !.trace = Append(@, "add_response")]

\* job_start, its except clause: record the failure, then re-raise it.
job_start_except(f) ==
    [f EXCEPT !.job = add_response(@, JobResponse("FAILED", "Job execution failed", f.raised)),
              !.trace = Append(@, "add_response")]

\* The log started anew with the pre-marker.
job_start_begin_resetLog(j, send_ok) ==
    LET f0 == Frame(j)
        marked == [status |-> "IN_PROGRESS",
                   responses |-> <<JobResponse("IN_PROGRESS", "Starting job execution", None)>>]
    IN  IF ~supervisor_account
        THEN [f0 EXCEPT !.job = marked, !.trace = Append(@, "add_response")]
        ELSE IF ~send_ok
             THEN Raise([f0 EXCEPT !.trace = <<"send_event">>], "AccountError", "account")
             ELSE [f0 EXCEPT !.events = <<"job.start.confirmation">>, !.job = marked,
                             !.trace = <<"send_event", "add_response">>]

\* The pre-marker left out.
job_start_begin_noMarker(j, send_ok) ==
    LET f0 == Frame(j)
    IN  IF ~supervisor_account
        THEN f0
        ELSE IF ~send_ok
             THEN Raise([f0 EXCEPT !.trace = <<"send_event">>], "AccountError", "account")
             ELSE [f0 EXCEPT !.events = <<"job.start.confirmation">>, !.trace = <<"send_event">>]

\* job_start up to the dispatch: the confirmation event (with an Account),
\* then the pre-marker.
job_start_begin_with(account, j, send_ok) ==
    LET f0 == Frame(j)
    IN  IF ~account
        THEN [f0 EXCEPT !.job = add_response(@, JobResponse("IN_PROGRESS", "Starting job execution", None)),
                        !.trace = Append(@, "add_response")]
        ELSE IF ~send_ok
             THEN Raise([f0 EXCEPT !.trace = <<"send_event">>], "AccountError", "account")
             ELSE [f0 EXCEPT !.events = <<"job.start.confirmation">>,
                             !.job = add_response(@, JobResponse("IN_PROGRESS", "Starting job execution", None)),
                             !.trace = <<"send_event", "add_response">>]

\* The event sent without looking whether there is an Account: None has no
\* send_event.
job_start_begin_needsAccount(j, send_ok) ==
    IF ~supervisor_account
    THEN Raise(Frame(j), "AttributeError", "account")
    ELSE job_start_begin_with(TRUE, j, send_ok)

job_start_begin(j, send_ok) == job_start_begin_with(supervisor_account, j, send_ok)

\* job_start from the choice of the descriptor on.
job_start_rest(f, method_name, beh, hook_ok) ==
    LET action == job_start_action(method_name)
    IN  IF f.raised # None
        THEN f
        ELSE IF action = NoMethod
             THEN Raise(f, "KeyError", "lookup")
             ELSE LET g == job_start_try(f, action, beh, hook_ok)
                  IN  IF g.raised # None THEN job_start_except(g) ELSE g

\* Only an exception of the method body caught.
job_start_run_uncaught(j, method_name, beh, send_ok, hook_ok) ==
    LET f == job_start_begin(j, send_ok)
        action == job_start_action(method_name)
    IN  IF f.raised # None
        THEN f
        ELSE IF action = NoMethod
             THEN Raise(f, "KeyError", "lookup")
             ELSE LET g == job_start_try(f, action, beh, hook_ok)
                  IN  IF g.origin = "method" THEN job_start_except(g) ELSE g

\* Agent.job_start(job, job_fields, context, server, method_name), whole.
job_start_run(j, method_name, beh, send_ok, hook_ok) ==
    job_start_rest(job_start_begin(j, send_ok), method_name, beh, hook_ok)

\* The record of an operation, as kept in call.
CallOf(op, method_name, beh, before, f) ==
    [op |-> op, method_name |-> method_name, beh |-> beh, before |-> before,
     trace |-> f.trace, events |-> f.events, hooks |-> f.hooks,
     raised |-> f.raised, origin |-> f.origin, returned |-> f.returned,
     invoked |-> f.invoked, args |-> f.args, params |-> f.params,
     logAtInvoke |-> f.logAtInvoke, logAtHook |-> f.logAtHook]

Effects(op, method_name, beh, f) ==
    /\ job' = f.job
    /\ account_events' = account_events \o f.events
    /\ finished' = finished + f.hooks
    /\ call' = CallOf(op, method_name, beh, job, f)
    /\ calls' = calls + 1
    /\ UNCHANGED <<methods, supervisor_account>>
    /\ UNCHANGED <<lcVars, kwVars, caseVars, auxVars>>

job_start(method_name, beh, send_ok, hook_ok) ==
    /\ calls < MaxCalls
    /\ Effects("job_start", method_name, beh, job_start_run(job, method_name, beh, send_ok, hook_ok))

\* The params the callers of job_stop and job_status pass.
DirectParams == [k \in {"job_id"} |-> "job-1"]

\* The response of the method recorded on the Job.
job_stop_run_records(j, beh) ==
    LET f == _execute(Frame(j), methods.job_stop.method, DirectParams, beh)
    IN  IF f.returned.is_job_response
        THEN [f EXCEPT !.job = add_response(@, f.returned)]
        ELSE f

\* Agent.job_stop(params) and Agent.job_status(params): a direct dispatch.
job_stop_run(j, beh) == _execute(Frame(j), methods.job_stop.method, DirectParams, beh)

job_stop(beh) ==
    /\ calls < MaxCalls
    /\ Effects("job_stop", None, beh, job_stop_run(job, beh))

job_status_run(j, beh) == _execute(Frame(j), methods.job_status.method, DirectParams, beh)

job_status(beh) ==
    /\ calls < MaxCalls
    /\ Effects("job_status", None, beh, job_status_run(job, beh))

\* The arguments callers pass to chat.
ChatContexts == {"context-1"}
ChatMessages == {"message-1", "message-2"}

\* The keyword arguments chat builds: {"context": context, "message": message}.
chat_params(context, message) ==
    [k \in {"context", "message"} |-> IF k = "context" THEN context ELSE message]

\* The job_stop method called in place of the chat method, and without a
\* test for a missing chat descriptor.
chat_run_wrongMethod(j, context, message, beh) ==
    LET f == [Frame(j) EXCEPT !.args = chat_params(context, message)]
    IN  _execute(f, methods.job_stop.method, chat_params(context, message), beh)

\* Agent.chat(context, message): ValueError when no chat method is configured.
chat_run(j, context, message, beh) ==
    LET f == [Frame(j) EXCEPT !.args = chat_params(context, message)]
    IN  IF methods.chat = NoMethod
        THEN Raise(f, "ValueError", "chat")
        ELSE _execute(f, methods.chat.method, chat_params(context, message), beh)

chat(context, message, beh) ==
    /\ calls < MaxCalls
    /\ Effects("chat", None, beh, chat_run(job, context, message, beh))

\* ------------------------------------------------------------ lifecycle harness
\* EntityLifecycle.handle_event applied to the entity.
HandleEvent(event) ==
    /\ lc.steps < MaxEvents
    /\ LET r == handle_event(entity, event)
       IN  /\ entity' = r.entity
           /\ lc' = [event |-> event, before |-> entity.status, returned |-> r.returned,
                     error |-> r.error, steps |-> lc.steps + 1]
    /\ UNCHANGED <<jobVars, kwVars, caseVars, auxVars>>

\* ------------------------------------------------ keyword arguments harness
\* The static params a descriptor may hold: None, or a dict over these keys.
ParamKeys == {"verbose", "fields", "context", "agent_parameters"}

StaticParams ==
    {NoDict} \cup {Dict(d) : d \in UNION {[D -> {"static"}] : D \in SUBSET ParamKeys}}

KwIdle ==
    [static |-> NoDict, job_fields |-> None, context |-> None, agent_parameters |-> None,
     built |-> FALSE, received |-> EmptyDict]

\* job_start builds the keyword arguments of the method.
BuildParams(static, job_fields, context, agent_parameters) ==
    /\ kw' = [static |-> static, job_fields |-> job_fields, context |-> context,
              agent_parameters |-> agent_parameters, built |-> TRUE,
              received |-> job_start_params(static, job_fields, context, agent_parameters)]
    /\ UNCHANGED <<jobVars, lcVars, caseVars, auxVars>>

\* ------------------------------------------------------------------- Case
\* CaseNodeUpdate.index and .cost are None.
NoIndex == 0
NoCost == -1

\* What callers put in the CaseNodeUpdate objects they create.
PresetIndexes == {NoIndex, 7}
Costs == {NoCost, 5}
FinalCosts == {NoCost, 0, 3}
CaseResults == {"result-1"}

CaseNodeUpdate(index, cost, is_final, payload) ==
    [index |-> index, cost |-> cost, is_final |-> is_final, payload |-> payload]

NoUpdate == CaseNodeUpdate(NoIndex, NoCost, FALSE, None)

\* No Case yet (nothing was returned by Case.start).
NoCase ==
    [exists |-> FALSE, status |-> None, updates |-> <<>>, total_cost |-> 0,
     final_delivery |-> None, finished_at |-> None]

\* A call on the Account: what it was handed, seen at the time of the call.
\* obj is the reference of the update (0: none, or one the Case built itself).
AccountCall(kind, ok, c, upd, obj) ==
    [kind |-> kind, ok |-> ok, status |-> c.status, len |-> Len(c.updates),
     update |-> upd, obj |-> obj]

\* What a request to POST /jobs/{job_id}/cases/{case_id}/update came to: whether
\* Jobs().get_job found the job, the HTTP status code and the "status" of the
\* body, the case_status of a success body, the exception the decorator caught.
Route(job_found, code, status, case_status, caught) ==
    [job_found |-> job_found, code |-> code, status |-> status,
     case_status |-> case_status, caught |-> caught]

NoRoute == Route(FALSE, 0, None, None, None)

\* The state of a Case operation: the Case, the objects, the calls it made
\* on the Account, the exception it ends with.
CaseFrame(c, h) == [case |-> c, heap |-> h, sent |-> <<>>, raised |-> None, route |-> NoRoute]

\* Case.start notifying the Account before the transition.
start_run_notifyFirst(send_ok) ==
    LET c0 == [NoCase EXCEPT !.exists = TRUE, !.status = "STOPPED"]
        f == [CaseFrame(NoCase, heap) EXCEPT
                 !.sent = <<AccountCall("start_case", send_ok, c0, NoUpdate, 0)>>]
    IN  IF ~send_ok
        THEN [f EXCEPT !.raised = "AccountError"]
        ELSE [f EXCEPT !.case = handle_event(c0, "START_WORK").entity]

\* Case.start(job_id, name, account, description, nodes, case_id): the Case
\* is built in STOPPED, START_WORK is applied, the Account is notified, the
\* Case is returned.
start_run(send_ok) ==
    LET c0 == [NoCase EXCEPT !.exists = TRUE, !.status = "STOPPED"]
        r == handle_event(c0, "START_WORK")
    IN  IF r.error # None
        THEN [CaseFrame(NoCase, heap) EXCEPT !.raised = r.error]
        ELSE LET f == [CaseFrame(NoCase, heap) EXCEPT
                          !.sent = <<AccountCall("start_case", send_ok, r.entity, NoUpdate, 0)>>]
             IN  IF ~send_ok
                 THEN [f EXCEPT !.raised = "AccountError"]
                 ELSE [f EXCEPT !.case = r.entity]

\* Case.update appending before it notifies.
update_run_appendFirst(c, h, obj, send_ok) ==
    LET h1 == [h EXCEPT ![obj].index = Len(c.updates) + 1]
        c1 == [c EXCEPT !.updates = Append(@, obj)]
        f == [CaseFrame(c1, h1) EXCEPT
                 !.sent = <<AccountCall("update_case", send_ok, c1, h1[obj], obj)>>]
    IN  IF ~send_ok THEN [f EXCEPT !.raised = "AccountError"] ELSE f

\* Case.update appending whether or not the notification went through.
update_run_appendRegardless(c, h, obj, send_ok) ==
    LET h1 == [h EXCEPT ![obj].index = Len(c.updates) + 1]
        f == [CaseFrame([c EXCEPT !.updates = Append(@, obj)], h1) EXCEPT
                 !.sent = <<AccountCall("update_case", send_ok, c, h1[obj], obj)>>]
    IN  IF ~send_ok THEN [f EXCEPT !.raised = "AccountError"] ELSE f

\* Case.update(updateCaseNode): the index is set on the caller's object, the
\* Account is notified, and the object is appended to updates.
update_run(c, h, obj, send_ok) ==
    LET h1 == [h EXCEPT ![obj].index = Len(c.updates) + 1]
        f == [CaseFrame(c, h1) EXCEPT
                 !.sent = <<AccountCall("update_case", send_ok, c, h1[obj], obj)>>]
    IN  IF ~send_ok
        THEN [f EXCEPT !.raised = "AccountError"]
        ELSE [f EXCEPT !.case = [c EXCEPT !.updates = Append(@, obj)]]

\* Case.human_input(updateCaseNode, message): the same three steps.
human_input_run(c, h, obj, send_ok) ==
    LET h1 == [h EXCEPT ![obj].index = Len(c.updates) + 1]
        f == [CaseFrame(c, h1) EXCEPT
                 !.sent = <<AccountCall("update_case", send_ok, c, h1[obj], obj)>>]
    IN  IF ~send_ok
        THEN [f EXCEPT !.raised = "AccountError"]
        ELSE [f EXCEPT !.case = [c EXCEPT !.updates = Append(@, obj)]]

\* Case.resume(): INPUT_RECEIVED.
resume_run(c, h) ==
    LET r == handle_event(c, "INPUT_RECEIVED")
    IN  IF r.error # None
        THEN [CaseFrame(c, h) EXCEPT !.raised = r.error]
        ELSE CaseFrame(r.entity, h)

\* case.receive_human_input(): Case defines no attribute of that name, the
\* lookup raises AttributeError before anything is called.
receive_human_input_run(c, h) ==
    [CaseFrame(c, h) EXCEPT !.raised = "AttributeError"]

\* Case(id, job_id, name, account, description, status): the constructor,
\* called directly; nothing is sent to the Account.
Case_init_run(status, h) ==
    CaseFrame([NoCase EXCEPT !.exists = TRUE, !.status = status], h)

\* Case.calculated_cost: sum(update.cost or 0.0 for update in self.updates).
RECURSIVE SumCosts(_, _)
SumCosts(h, ids) ==
    IF ids = <<>>
    THEN 0
    ELSE (IF h[Head(ids)].cost = NoCost THEN 0 ELSE h[Head(ids)].cost) + SumCosts(h, Tail(ids))

calculated_cost(c, h) == SumCosts(h, c.updates)

\* The final update of close() given the index of the last update.
close_run_lastIndex(c, h, case_result, final_cost, send_ok) ==
    LET c1 == [c EXCEPT !.total_cost = IF final_cost # NoCost /\ final_cost # 0
                                       THEN final_cost
                                       ELSE calculated_cost(c, h)]
        r == handle_event(c1, "SUCCESSFULLY_DONE")
    IN  IF r.error # None
        THEN [CaseFrame(c1, h) EXCEPT !.raised = r.error]
        ELSE LET upd == CaseNodeUpdate(Len(c.updates), NoCost, TRUE, case_result)
                 c2 == [r.entity EXCEPT !.final_delivery = case_result, !.finished_at = "now"]
                 f == [CaseFrame(c2, h) EXCEPT
                          !.sent = <<AccountCall("update_case", send_ok, c2, upd, 0)>>]
             IN  IF ~send_ok THEN [f EXCEPT !.raised = "AccountError"] ELSE f

\* close() storing the delivery and the finish time before the transition.
close_run_deliveryFirst(c, h, case_result, final_cost, send_ok) ==
    LET c1 == [c EXCEPT !.total_cost = IF final_cost # NoCost /\ final_cost # 0
                                       THEN final_cost
                                       ELSE calculated_cost(c, h),
                        !.final_delivery = case_result, !.finished_at = "now"]
        r == handle_event(c1, "SUCCESSFULLY_DONE")
    IN  IF r.error # None
        THEN [CaseFrame(c1, h) EXCEPT !.raised = r.error]
        ELSE LET upd == CaseNodeUpdate(Len(c.updates) + 1, NoCost, TRUE, case_result)
                 f == [CaseFrame(r.entity, h) EXCEPT
                          !.sent = <<AccountCall("update_case", send_ok, r.entity, upd, 0)>>]
             IN  IF ~send_ok THEN [f EXCEPT !.raised = "AccountError"] ELSE f

\* Case.close(case_result, final_cost): total_cost, then SUCCESSFULLY_DONE,
\* then the final update (index len(updates) + 1, not appended),
\* final_delivery, finished_at and the notification.
close_run(c, h, case_result, final_cost, send_ok) ==
    LET c1 == [c EXCEPT !.total_cost = IF final_cost # NoCost /\ final_cost # 0
                                       THEN final_cost
                                       ELSE calculated_cost(c, h)]
        r == handle_event(c1, "SUCCESSFULLY_DONE")
    IN  IF r.error # None
        THEN [CaseFrame(c1, h) EXCEPT !.raised = r.error]
        ELSE LET upd == CaseNodeUpdate(Len(c.updates) + 1, NoCost, TRUE, case_result)
                 c2 == [r.entity EXCEPT !.final_delivery = case_result, !.finished_at = "now"]
                 f == [CaseFrame(c2, h) EXCEPT
                          !.sent = <<AccountCall("update_case", send_ok, c2, upd, 0)>>]
             IN  IF ~send_ok THEN [f EXCEPT !.raised = "AccountError"] ELSE f

\* The arguments of close(); NoCaseArgs for the other operations.
\* The CaseNodeUpdate the route builds from the answer (routes.py 245-253):
\* name "Human Input Response", response_type "human_input", is_final False.
AnswerUpdate == CaseNodeUpdate(NoIndex, NoCost, FALSE, "human_input")

\* handle_route_errors around a body that got as far as frame f: an exception
\* that is not an HTTPException or a ValueError becomes a 500 error response.
handle_route_errors(f) ==
    IF f.raised # None
    THEN [f EXCEPT !.raised = None,
                   !.route = Route(TRUE, 500, "error", None, f.raised)]
    ELSE [f EXCEPT !.route = Route(TRUE, 200, "success", f.case.status, None)]

\* The body from the CaseNodeUpdate on: case.update(update), then
\* case.receive_human_input().
answer_run(c, h, send_ok) ==
    LET h1 == Append(h, AnswerUpdate)
        f1 == update_run(c, h1, Len(h1), send_ok)
    IN  IF f1.raised # None
        THEN f1
        ELSE [receive_human_input_run(f1.case, f1.heap) EXCEPT !.sent = f1.sent]

\* update_case_with_answer looking at the status after case.update.
update_case_with_answer_run_checkLast(c, h, job_found, send_ok) ==
    IF ~job_found
    THEN [CaseFrame(c, h) EXCEPT !.route = Route(FALSE, 404, "error", None, "HTTPException")]
    ELSE LET c0 == IF c.exists THEN c ELSE Case_init_run("AWAITING", h).case
             f == answer_run(c0, h, send_ok)
         IN  IF c0.status # "AWAITING"
             THEN [f EXCEPT !.raised = None,
                            !.route = Route(TRUE, 400, "error", None, "HTTPException")]
             ELSE handle_route_errors(f)

\* update_case_with_answer(job_id, case_id, request) under handle_route_errors:
\* 404 for a job Jobs() does not know; the Case of Cases(), or a new AWAITING
\* Case where Cases() has none; 400 unless that Case is AWAITING; then the
\* update and the transition.
update_case_with_answer_run(c, h, job_found, send_ok) ==
    IF ~job_found
    THEN [CaseFrame(c, h) EXCEPT !.route = Route(FALSE, 404, "error", None, "HTTPException")]
    ELSE LET c0 == IF c.exists THEN c ELSE Case_init_run("AWAITING", h).case
         IN  IF c0.status # "AWAITING"
             THEN [CaseFrame(c, h) EXCEPT
                      !.route = Route(TRUE, 400, "error", None, "HTTPException")]
             ELSE handle_route_errors(answer_run(c0, h, send_ok))

CaseArgs(case_result, final_cost) == [case_result |-> case_result, final_cost |-> final_cost]

NoCaseArgs == CaseArgs(None, NoCost)

\* The record of a Case operation, as kept in ccall.
CaseCallOf(op, obj, args, f) ==
    [op |-> op, obj |-> obj, args |-> args, raised |-> f.raised, before |-> case,
     sent |-> f.sent, route |-> f.route]

CaseEffects(op, obj, args, f) ==
    /\ csteps < MaxCaseOps
    /\ case' = f.case
    /\ heap' = f.heap
    /\ account_log' = account_log \o f.sent
    /\ ccall' = CaseCallOf(op, obj, args, f)
    /\ csteps' = csteps + 1
    /\ UNCHANGED <<jobVars, lcVars, kwVars, auxVars>>

start(send_ok) ==
    /\ ~case.exists
    /\ CaseEffects("start", 0, NoCaseArgs, start_run(send_ok))

\* The caller hands update() a CaseNodeUpdate it has just created ...
update_new(index, cost, send_ok) ==
    /\ case.exists
    /\ LET h == Append(heap, CaseNodeUpdate(index, cost, FALSE, None))
       IN  CaseEffects("update", Len(h), NoCaseArgs, update_run(case, h, Len(h), send_ok))

\* ... or one it still holds from an earlier call.
update_again(obj, send_ok) ==
    /\ case.exists
    /\ obj \in DOMAIN heap
    /\ CaseEffects("update", obj, NoCaseArgs, update_run(case, heap, obj, send_ok))

human_input_new(index, cost, send_ok) ==
    /\ case.exists
    /\ LET h == Append(heap, CaseNodeUpdate(index, cost, FALSE, None))
       IN  CaseEffects("human_input", Len(h), NoCaseArgs, human_input_run(case, h, Len(h), send_ok))

human_input_again(obj, send_ok) ==
    /\ case.exists
    /\ obj \in DOMAIN heap
    /\ CaseEffects("human_input", obj, NoCaseArgs, human_input_run(case, heap, obj, send_ok))

resume ==
    /\ case.exists
    /\ CaseEffects("resume", 0, NoCaseArgs, resume_run(case, heap))

receive_human_input ==
    /\ case.exists
    /\ CaseEffects("receive_human_input", 0, NoCaseArgs, receive_human_input_run(case, heap))

\* A Case built where none is known, as update_case_with_answer does.
Case_init(status) ==
    /\ ~case.exists
    /\ CaseEffects("Case", 0, NoCaseArgs, Case_init_run(status, heap))

close(case_result, final_cost, send_ok) ==
    /\ case.exists
    /\ CaseEffects("close", 0, CaseArgs(case_result, final_cost),
                   close_run(case, heap, case_result, final_cost, send_ok))

\* POST /jobs/{job_id}/cases/{case_id}/update with an answer.
update_case_with_answer(job_found, send_ok) ==
    CaseEffects("update_case_with_answer", 0, NoCaseArgs,
                update_case_with_answer_run(case, heap, job_found, send_ok))

NoCaseCall ==
    [op |-> None, obj |-> 0, args |-> NoCaseArgs, raised |-> None, before |-> NoCase,
     sent |-> <<>>, route |-> NoRoute]

CaseIdle ==
    /\ case = NoCase
    /\ heap = <<>>
    /\ account_log = <<>>
    /\ ccall = NoCaseCall
    /\ csteps = 0

\* ------------------------------------------------- parameters (spec.md 4.6)
\* The parameters the Agent is configured with, and a name it does not have.
ParameterNames == {"parameter1", "parameter2"}
RecordNames == ParameterNames \cup {"invalid_parameter"}
ParameterValues == {"new_value1", "new_value2"}

\* A record of the wire format: {name, value, is_environment}.
ParameterRecord(name, value, is_environment) ==
    [name |-> name, value |-> value, is_environment |-> is_environment]

ParameterRecords ==
    {ParameterRecord(n, v, e) : n \in RecordNames, v \in ParameterValues, e \in BOOLEAN}

\* What the Account hands over as parameters_encrypted: nothing, a text the
\* server's key does not decrypt, or the encryption of a JSON array of at
\* most two records.
Ciphertext(ok, payload) == [is_none |-> FALSE, ok |-> ok, payload |-> payload]
NoCiphertext == [is_none |-> TRUE, ok |-> FALSE, payload |-> <<>>]

EncryptedParameters ==
    {NoCiphertext, Ciphertext(FALSE, <<>>)}
        \cup {Ciphertext(TRUE, <<>>)}
        \cup {Ciphertext(TRUE, <<a>>) : a \in ParameterRecords}
        \cup {Ciphertext(TRUE, <<a, b>>) : a, b \in ParameterRecords}

\* The state a remote update works on: ParametersSetup.definitions (the value
\* of each parameter), os.environ (the variables that are set) and
\* Agent.server_encrypted_parameters.
VaultState(definitions, environ, encrypted) ==
    [definitions |-> definitions, environ |-> environ, encrypted |-> encrypted,
     raised |-> None, decrypted |-> FALSE]

\* ParametersSetup.update_values_from_server writing every value to os.environ.
RECURSIVE update_values_from_server_allEnviron(_, _)
update_values_from_server_allEnviron(v, records) ==
    IF \E i \in DOMAIN records : records[i].name \notin DOMAIN v.definitions
    THEN [v EXCEPT !.raised = "ValueError"]
    ELSE IF records = <<>>
         THEN v
         ELSE LET r == Head(records)
              IN  update_values_from_server_allEnviron(
                      [v EXCEPT !.definitions[r.name] = r.value,
                                !.environ = Union(@, [k \in {r.name} |-> r.value])],
                      Tail(records))

\* ParametersSetup.update_values_from_server(records): a record naming a
\* parameter the set does not have is a validation error and nothing is
\* updated; otherwise each record, in order, sets the value of its parameter
\* and, with is_environment, the environment variable of that name.
RECURSIVE update_values_from_server(_, _)
update_values_from_server(v, records) ==
    IF \E i \in DOMAIN records : records[i].name \notin DOMAIN v.definitions
    THEN [v EXCEPT !.raised = "ValueError"]
    ELSE IF records = <<>>
         THEN v
         ELSE LET r == Head(records)
              IN  update_values_from_server(
                      [v EXCEPT !.definitions[r.name] = r.value,
                                !.environ = IF r.is_environment
                                            THEN Union(@, [k \in {r.name} |-> r.value])
                                            ELSE @],
                      Tail(records))

\* server.decrypt(ciphertext): the plaintext, or an error of the ValueError
\* class for a text that was not encrypted for the server's key.
decrypt(v, encrypted) ==
    IF encrypted.ok
    THEN [v EXCEPT !.decrypted = TRUE]
    ELSE [v EXCEPT !.decrypted = TRUE, !.raised = "ValueError"]

\* Agent.update_parameters_from_server with the validation error swallowed.
update_parameters_from_server_quiet(v, has_setup, encrypted) ==
    IF encrypted.is_none \/ ~has_setup
    THEN v
    ELSE LET v1 == [v EXCEPT !.encrypted = encrypted]
             v2 == decrypt(v1, encrypted)
         IN  IF v2.raised # None
             THEN v2
             ELSE [update_values_from_server(v2, encrypted.payload) EXCEPT !.raised = None]

\* Agent.update_parameters_from_server(server, server_encrypted_parameters).
update_parameters_from_server(v, has_setup, encrypted) ==
    IF encrypted.is_none \/ ~has_setup
    THEN v
    ELSE LET v1 == [v EXCEPT !.encrypted = encrypted]
             v2 == decrypt(v1, encrypted)
         IN  IF v2.raised # None
             THEN v2
             ELSE update_values_from_server(v2, encrypted.payload)

\* What the Account answers to get_agent_by: an error, or a success whose
\* detail is empty or the registration of the Agent on the server.
AgentIds == {"agent-1", "agent-2"}
OnboardingStatuses == {"pending", "configured"}

ApiSuccess(id, status, onboarding_status, parameters_encrypted) ==
    [success |-> TRUE, empty |-> FALSE, id |-> id, status |-> status,
     onboarding_status |-> onboarding_status, parameters_encrypted |-> parameters_encrypted]

ApiSuccessEmpty == [ApiSuccess(None, None, None, NoCiphertext) EXCEPT !.empty = TRUE]

ApiError == [ApiSuccess(None, None, None, NoCiphertext) EXCEPT !.success = FALSE]

\* The ciphertexts of a registration: none, one that does not decrypt, one
\* record of a known parameter, one record of an unknown parameter.
RegistrationParameters ==
    {NoCiphertext, Ciphertext(FALSE, <<>>),
     Ciphertext(TRUE, <<ParameterRecord("parameter1", "new_value1", TRUE)>>),
     Ciphertext(TRUE, <<ParameterRecord("invalid_parameter", "new_value1", FALSE)>>)}

AgentReplies ==
    {ApiError, ApiSuccessEmpty}
        \cup {ApiSuccess(i, "active", o, e) :
                 i \in AgentIds, o \in OnboardingStatuses, e \in RegistrationParameters}

\* The attributes of the Agent a remote update can write.
AgentAttributes(a) ==
    [server_agent_id |-> a.server_agent_id,
     server_agent_status |-> a.server_agent_status,
     server_agent_onboarding_status |-> a.server_agent_onboarding_status,
     server_encrypted_parameters |-> a.encrypted]

\* The Agent a call works on: the parameter set, the environment, the four
\* attributes; what the call returns and raises.
AgentState(a) ==
    [definitions |-> a.definitions, environ |-> a.environ, encrypted |-> a.encrypted,
     raised |-> None, decrypted |-> FALSE,
     server_agent_id |-> a.server_agent_id,
     server_agent_status |-> a.server_agent_status,
     server_agent_onboarding_status |-> a.server_agent_onboarding_status,
     returned |-> None]

\* update_agent_from_server storing the id before comparing it.
update_agent_from_server_idFirst(a, has_setup, has_account, reply) ==
    IF ~has_account \/ ~reply.success
    THEN a
    ELSE LET a0 == [a EXCEPT !.server_agent_id = reply.id]
         IN  IF a.server_agent_id # None /\ a.server_agent_id # reply.id
             THEN [a0 EXCEPT !.raised = "ValueError"]
             ELSE LET a1 == [a0 EXCEPT !.server_agent_status = reply.status,
                                       !.server_agent_onboarding_status = reply.onboarding_status]
                      a2 == IF a1.server_agent_onboarding_status = "configured"
                            THEN update_parameters_from_server(a1, has_setup,
                                                               reply.parameters_encrypted)
                            ELSE a1
                  IN  IF a2.raised # None THEN a2 ELSE [a2 EXCEPT !.returned = "self"]

\* update_agent_from_server applying the parameters whatever the onboarding
\* status.
update_agent_from_server_anyStatus(a, has_setup, has_account, reply) ==
    IF ~has_account \/ ~reply.success
    THEN a
    ELSE IF a.server_agent_id # None /\ a.server_agent_id # reply.id
         THEN [a EXCEPT !.raised = "ValueError"]
         ELSE LET a1 == [a EXCEPT !.server_agent_id = reply.id,
                                  !.server_agent_status = reply.status,
                                  !.server_agent_onboarding_status = reply.onboarding_status]
                  a2 == update_parameters_from_server(a1, has_setup,
                                                      reply.parameters_encrypted)
              IN  IF a2.raised # None THEN a2 ELSE [a2 EXCEPT !.returned = "self"]

\* Agent.update_agent_from_server(server): None without a supervisor account
\* or without a success from get_agent_by; ValueError when the Agent has an
\* id and the Account returns another; then the three attributes, and the
\* parameters when the onboarding status is "configured"; returns self. The
\* fields of an empty detail read as None.
update_agent_from_server(a, has_setup, has_account, reply) ==
    IF ~has_account \/ ~reply.success
    THEN a
    ELSE IF a.server_agent_id # None /\ a.server_agent_id # reply.id
         THEN [a EXCEPT !.raised = "ValueError"]
         ELSE LET a1 == [a EXCEPT !.server_agent_id = reply.id,
                                  !.server_agent_status = reply.status,
                                  !.server_agent_onboarding_status = reply.onboarding_status]
                  a2 == IF a1.server_agent_onboarding_status = "configured"
                        THEN update_parameters_from_server(a1, has_setup,
                                                           reply.parameters_encrypted)
                        ELSE a1
              IN  IF a2.raised # None THEN a2 ELSE [a2 EXCEPT !.returned = "self"]

\* The route server_update_agent(onboarding_status, parameters_encrypted)
\* under handle_route_errors: the onboarding status when given, then the
\* parameters when given; an AgentResponse, or the error response of the
\* decorator.
server_update_agent(a, has_setup, onboarding_status, parameters_encrypted) ==
    LET a1 == IF onboarding_status # None
              THEN [a EXCEPT !.server_agent_onboarding_status = onboarding_status]
              ELSE a
        a2 == IF ~parameters_encrypted.is_none
              THEN update_parameters_from_server(a1, has_setup, parameters_encrypted)
              ELSE a1
    IN  [a2 EXCEPT !.returned = IF a2.raised # None THEN "ErrorResponse" ELSE "AgentResponse"]

\* A call on the Agent, and its record in vault.
AgentEffects(op, has_account, reply, encrypted, a) ==
    /\ vault.steps < MaxUpdates
    /\ vault' = [vault EXCEPT !.definitions = a.definitions, !.environ = a.environ,
                              !.encrypted = a.encrypted, !.raised = a.raised,
                              !.decrypted = a.decrypted,
                              !.server_agent_id = a.server_agent_id,
                              !.server_agent_status = a.server_agent_status,
                              !.server_agent_onboarding_status = a.server_agent_onboarding_status,
                              !.op = op, !.returned = a.returned,
                              !.has_account = has_account, !.reply = reply,
                              !.was = AgentAttributes(vault),
                              !.received = encrypted,
                              !.before = [definitions |-> vault.definitions,
                                          environ |-> vault.environ],
                              !.steps = @ + 1]
    /\ UNCHANGED <<jobVars, lcVars, kwVars, caseVars, reg, race>>

UpdateAgentFromServer(has_account, reply) ==
    AgentEffects("update_agent_from_server", has_account, reply, reply.parameters_encrypted,
                 update_agent_from_server(AgentState(vault), vault.has_setup, has_account, reply))

ServerUpdateAgent(onboarding_status, parameters_encrypted) ==
    AgentEffects("server_update_agent", TRUE, ApiError, parameters_encrypted,
                 server_update_agent(AgentState(vault), vault.has_setup, onboarding_status,
                                     parameters_encrypted))

\* A remote update, and its record in vault.
UpdateParameters(encrypted) ==
    /\ vault.steps < MaxUpdates
    /\ LET v == update_parameters_from_server(
                    VaultState(vault.definitions, vault.environ, vault.encrypted),
                    vault.has_setup, encrypted)
       IN  vault' = [vault EXCEPT !.definitions = v.definitions, !.environ = v.environ,
                                  !.encrypted = v.encrypted, !.raised = v.raised,
                                  !.decrypted = v.decrypted,
                                  !.received = encrypted,
                                  !.before = [definitions |-> vault.definitions,
                                              environ |-> vault.environ],
                                  !.steps = @ + 1]
    /\ UNCHANGED <<jobVars, lcVars, kwVars, caseVars, reg, race>>

\* The Agent as configured: value0 in every parameter.
VaultIdle ==
    [has_setup |-> TRUE,
     definitions |-> [n \in ParameterNames |-> "value0"],
     environ |-> EmptyDict,
     encrypted |-> NoCiphertext,
     raised |-> None,
     decrypted |-> FALSE,
     server_agent_id |-> None,
     server_agent_status |-> None,
     server_agent_onboarding_status |-> None,
     op |-> None,
     returned |-> None,
     has_account |-> FALSE,
     reply |-> ApiError,
     was |-> [server_agent_id |-> None, server_agent_status |-> None,
              server_agent_onboarding_status |-> None,
              server_encrypted_parameters |-> NoCiphertext],
     received |-> NoCiphertext,
     before |-> [definitions |-> [n \in ParameterNames |-> "value0"], environ |-> EmptyDict],
     steps |-> 0]

\* ------------------------------------------- custom method keys (registry)
MaxKeyLen == 50

\* The characters of a key, by the class the pattern puts them in: a letter
\* a-z or digit, a hyphen, a newline, any other character.
Chars == {"a", "-", "\n", "A"}

Run(c, n) == [i \in 1..n |-> c]

\* The pieces the keys are made of, and the keys: up to three pieces.
Pieces == {Run("a", 1), Run("a", MaxKeyLen - 1), Run("-", 1), Run("\n", 1), Run("A", 1)}

Keys == Pieces \cup {a \o b : a, b \in Pieces} \cup {a \o b \o c : a, b, c \in Pieces}

\* The other key of a map of two: a slug, a key with two hyphens in a row, a
\* key of 51 letters.
SecondKeys == {<<"a", "-", "a">>, <<"a", "-", "-", "a">>, Run("a", MaxKeyLen + 1)}

\* The custom argument: None, or a dict (its keys in order; the values are
\* AgentMethods and are not looked at).
CustomDict(keys) == [is_none |-> FALSE, keys |-> keys]
NoCustom == [is_none |-> TRUE, keys |-> <<>>]

CustomMaps ==
    {NoCustom, CustomDict(<<>>)}
        \cup {CustomDict(<<a>>) : a \in Keys}
        \cup {CustomDict(<<a, b>>) : a \in Keys \ SecondKeys, b \in SecondKeys}
        \cup {CustomDict(<<b, a>>) : a \in Keys \ SecondKeys, b \in {<<"a", "-", "a">>}}

\* The pattern [a-z0-9]+(?:-[a-z0-9]+)* matched on key[1..e]: letters, digits
\* and hyphens, each hyphen after a letter or digit, a letter or digit last.
matches_slug(key, e) ==
    /\ e >= 1
    /\ \A i \in 1..e : key[i] \in {"a", "-"}
    /\ \A i \in 1..e : key[i] = "-" => (i > 1 /\ key[i - 1] = "a")
    /\ key[e] = "a"

\* re.match(r"^[a-z0-9]+(?:-[a-z0-9]+)*$", key): $ matches at the end of the
\* string and also before a newline that ends the string.
re_match(key) ==
    \/ matches_slug(key, Len(key))
    \/ Len(key) >= 1 /\ key[Len(key)] = "\n" /\ matches_slug(key, Len(key) - 1)

\* The outcome of a construction: accepted, or the ValueError raised.
Accepted(custom) == [built |-> TRUE, custom |-> custom, accepted |-> TRUE, rule |-> None, key |-> <<>>]
Rejected(custom, rule, key) ==
    [built |-> TRUE, custom |-> custom, accepted |-> FALSE, rule |-> rule, key |-> key]

\* The loop of validate_custom_method_keys over value.keys() from position i.
RECURSIVE validate_keys_from(_, _)
validate_keys_from(custom, i) ==
    IF i > Len(custom.keys)
    THEN Accepted(custom)
    ELSE IF ~re_match(custom.keys[i])
         THEN Rejected(custom, "not a valid slug", custom.keys[i])
         ELSE IF Len(custom.keys[i]) > MaxKeyLen
              THEN Rejected(custom, "too long", custom.keys[i])
              ELSE validate_keys_from(custom, i + 1)

\* AgentMethodsModel.validate_custom_method_keys(value): `if value:` skips
\* None and the empty dict.
validate_custom_method_keys(custom) ==
    IF custom.is_none \/ custom.keys = <<>>
    THEN Accepted(custom)
    ELSE validate_keys_from(custom, 1)

RegIdle == [built |-> FALSE, custom |-> NoCustom, accepted |-> FALSE, rule |-> None, key |-> <<>>]

\* AgentMethodsModel(job_start, job_stop, job_status, custom=custom).
AgentMethodsModel_init(custom) ==
    /\ ~reg.built
    /\ reg' = validate_custom_method_keys(custom)
    /\ UNCHANGED <<jobVars, lcVars, kwVars, caseVars, vault, race>>

\* --------------------------------------- Case.update, statement by statement
\* Two threads of the embedding system, each making one update() call on the
\* Case; a call is at "index" before its first statement, then at "notify",
\* "append" and "done".
Threads == {1, 2}

ThreadIdle == [pc |-> "index", obj |-> 0, raised |-> None, overlapped |-> FALSE]

RaceIdle == [t \in Threads |-> ThreadIdle]

\* Another update() call is between its first and its last statement.
InFlight(t) == \E u \in Threads \ {t} : race[u].pc \in {"notify", "append"}

RaceFrame == UNCHANGED <<jobVars, lcVars, kwVars, ccall, csteps, vault, reg>>

\* updateCaseNode.index = len(self.updates) + 1, on a new object ...
update_index_new(t, cost) ==
    /\ case.exists
    /\ race[t].pc = "index"
    /\ heap' = Append(heap, CaseNodeUpdate(Len(case.updates) + 1, cost, FALSE, None))
    /\ race' = [race EXCEPT ![t] = [pc |-> "notify", obj |-> Len(heap) + 1, raised |-> None,
                                    overlapped |-> InFlight(t)]]
    /\ UNCHANGED <<case, account_log>>
    /\ RaceFrame

\* ... or on one the caller has passed before.
update_index_again(t, obj) ==
    /\ case.exists
    /\ race[t].pc = "index"
    /\ obj \in DOMAIN heap
    /\ heap' = [heap EXCEPT ![obj].index = Len(case.updates) + 1]
    /\ race' = [race EXCEPT ![t] = [pc |-> "notify", obj |-> obj, raised |-> None,
                                    overlapped |-> InFlight(t)]]
    /\ UNCHANGED <<case, account_log>>
    /\ RaceFrame

\* self.account.send_update_case(self, updateCaseNode)
update_notify(t, send_ok) ==
    /\ race[t].pc = "notify"
    /\ account_log' = Append(account_log,
                             AccountCall("update_case", send_ok, case, heap[race[t].obj], race[t].obj))
    /\ race' = [race EXCEPT ![t].pc = IF send_ok THEN "append" ELSE "done",
                            ![t].raised = IF send_ok THEN None ELSE "AccountError"]
    /\ UNCHANGED <<case, heap>>
    /\ RaceFrame

\* self.updates.append(updateCaseNode)
update_append(t) ==
    /\ race[t].pc = "append"
    /\ case' = [case EXCEPT !.updates = Append(@, race[t].obj)]
    /\ race' = [race EXCEPT ![t].pc = "done"]
    /\ UNCHANGED <<heap, account_log>>
    /\ RaceFrame

AuxIdle ==
    /\ vault = VaultIdle
    /\ reg = RegIdle
    /\ race = RaceIdle

\* ------------------------------------------------------------ specifications
\* The static params of the job_start descriptor: one key of its own and one
\* that collides with a key job_start adds.
JobStartParams ==
    Dict([k \in {"verbose", "fields"} |-> "static"])

Registries ==
    { [job_start |-> AgentMethodModel("control.job_start", JobStartParams, a),
       job_stop |-> AgentMethod("control.job_stop", FALSE),
       job_status |-> AgentMethod("control.job_status", FALSE),
       chat |-> c,
       custom |-> m] :
         a \in BOOLEAN,
         c \in {NoMethod, AgentMethod("control.chat", FALSE)},
         m \in [CustomKeys -> {AgentMethod("control.custom", b) : b \in BOOLEAN}] }

NoBehaviour == [kind |-> None, exc |-> None, value |-> NoResponse]

NoCall == CallOf(None, None, NoBehaviour, [status |-> "STOPPED", responses |-> <<>>], Frame(None))

LcIdle == [event |-> None, before |-> None, returned |-> None, error |-> None, steps |-> 0]

JobInit ==
    /\ methods \in Registries
    /\ supervisor_account \in BOOLEAN
    /\ job = [status |-> "STOPPED", responses |-> <<>>]
    /\ account_events = <<>>
    /\ finished = 0
    /\ call = NoCall
    /\ calls = 0

JobIdle ==
    /\ methods = CHOOSE r \in Registries : TRUE
    /\ supervisor_account = FALSE
    /\ job = [status |-> "STOPPED", responses |-> <<>>]
    /\ account_events = <<>>
    /\ finished = 0
    /\ call = NoCall
    /\ calls = 0

LifecycleIdle ==
    /\ entity = [status |-> "STOPPED"]
    /\ lc = LcIdle

Init ==
    /\ JobInit
    /\ LifecycleIdle
    /\ kw = KwIdle
    /\ CaseIdle
    /\ AuxIdle

Next ==
    \/ \E method_name \in MethodNames, beh \in Behaviours, send_ok \in BOOLEAN, hook_ok \in BOOLEAN :
          \* send_ok is consulted only with an Account, hook_ok only after a return
          /\ send_ok \/ supervisor_account
          /\ hook_ok \/ (send_ok /\ beh.kind = "returns" /\ beh.value.is_job_response)
          /\ job_start(method_name, beh, send_ok, hook_ok)
    \/ \E beh \in DirectBehaviours : job_stop(beh)
    \/ \E beh \in DirectBehaviours : job_status(beh)
    \/ \E context \in ChatContexts, message \in ChatMessages, beh \in DirectBehaviours :
          chat(context, message, beh)

Spec == Init /\ [][Next]_vars

LifecycleInit ==
    /\ methods = CHOOSE r \in Registries : TRUE
    /\ supervisor_account = FALSE
    /\ job = [status |-> "STOPPED", responses |-> <<>>]
    /\ account_events = <<>>
    /\ finished = 0
    /\ call = NoCall
    /\ calls = 0
    /\ entity \in [status : EntityStatus]
    /\ lc = LcIdle
    /\ kw = KwIdle
    /\ CaseIdle
    /\ AuxIdle

LifecycleNext == \E event \in EntityEvents : HandleEvent(event)

SpecLifecycle == LifecycleInit /\ [][LifecycleNext]_vars

ParamsInit ==
    /\ JobIdle
    /\ LifecycleIdle
    /\ kw = KwIdle
    /\ CaseIdle
    /\ AuxIdle

ParamsNext ==
    \E static \in StaticParams, job_fields \in {"fields-1", "fields-2"},
       context \in {"context-1", "context-2"}, agent_parameters \in {None, "parameters-1"} :
        BuildParams(static, job_fields, context, agent_parameters)

SpecParams == ParamsInit /\ [][ParamsNext]_vars

CaseInit ==
    /\ JobIdle
    /\ LifecycleIdle
    /\ kw = KwIdle
    /\ CaseIdle
    /\ AuxIdle

CaseNext ==
    \/ \E send_ok \in BOOLEAN : start(send_ok)
    \/ \E index \in PresetIndexes, cost \in Costs, send_ok \in BOOLEAN :
          update_new(index, cost, send_ok)
    \/ \E obj \in DOMAIN heap, send_ok \in BOOLEAN : update_again(obj, send_ok)
    \/ \E index \in PresetIndexes, cost \in Costs, send_ok \in BOOLEAN :
          human_input_new(index, cost, send_ok)
    \/ \E obj \in DOMAIN heap, send_ok \in BOOLEAN : human_input_again(obj, send_ok)
    \/ resume
    \/ receive_human_input
    \/ Case_init("AWAITING")
    \/ \E case_result \in CaseResults, final_cost \in FinalCosts, send_ok \in BOOLEAN :
          close(case_result, final_cost, send_ok)

SpecCase == CaseInit /\ [][CaseNext]_vars

\* The Case operations and the route that answers a human-input request.
RouteNext ==
    \/ CaseNext
    \/ \E job_found \in BOOLEAN, send_ok \in BOOLEAN : update_case_with_answer(job_found, send_ok)

SpecRoute == CaseInit /\ [][RouteNext]_vars

\* The process environment may hold a variable named like a parameter before
\* the first update; an Agent may also have no parameters_setup.
VaultInit ==
    /\ JobIdle
    /\ LifecycleIdle
    /\ kw = KwIdle
    /\ CaseIdle
    /\ \E has_setup \in BOOLEAN, environ \in {EmptyDict, [k \in {"parameter2"} |-> "value-env"]} :
          vault = [VaultIdle EXCEPT !.has_setup = has_setup, !.environ = environ,
                                    !.before.environ = environ]
    /\ reg = RegIdle
    /\ race = RaceIdle

VaultNext == \E encrypted \in EncryptedParameters : UpdateParameters(encrypted)

SpecVault == VaultInit /\ [][VaultNext]_vars

\* An Agent with or without a parameter set, registered on the server or not
\* yet, and the calls that update it from the server.
AgentInit ==
    /\ JobIdle
    /\ LifecycleIdle
    /\ kw = KwIdle
    /\ CaseIdle
    /\ \E has_setup \in BOOLEAN, id \in {None, "agent-1"} :
          vault = [VaultIdle EXCEPT !.has_setup = has_setup, !.server_agent_id = id,
                                    !.was.server_agent_id = id]
    /\ reg = RegIdle
    /\ race = RaceIdle

AgentNext ==
    \/ \E has_account \in BOOLEAN, reply \in AgentReplies :
          UpdateAgentFromServer(has_account, reply)
    \/ \E onboarding_status \in OnboardingStatuses \cup {None},
           parameters_encrypted \in RegistrationParameters :
          ServerUpdateAgent(onboarding_status, parameters_encrypted)

SpecAgent == AgentInit /\ [][AgentNext]_vars

RegistryInit ==
    /\ JobIdle
    /\ LifecycleIdle
    /\ kw = KwIdle
    /\ CaseIdle
    /\ AuxIdle

RegistryNext == \E custom \in CustomMaps : AgentMethodsModel_init(custom)

SpecRegistry == RegistryInit /\ [][RegistryNext]_vars

RaceInit ==
    /\ JobIdle
    /\ LifecycleIdle
    /\ kw = KwIdle
    /\ CaseIdle
    /\ AuxIdle

RaceNext ==
    \/ \E send_ok \in BOOLEAN : start(send_ok)
    \/ \E t \in Threads, cost \in Costs : update_index_new(t, cost)
    \/ \E t \in Threads, obj \in DOMAIN heap : update_index_again(t, obj)
    \/ \E t \in Threads, send_ok \in BOOLEAN : update_notify(t, send_ok)
    \/ \E t \in Threads : update_append(t)

SpecRace == RaceInit /\ [][RaceNext]_vars

\* ------------------------------------------------------------------ properties
IsPrefix(a, b) == Len(a) <= Len(b) /\ SubSeq(b, 1, Len(a)) = a

Last(q) == q[Len(q)]

Occurrences(q, x) == Cardinality({i \in DOMAIN q : q[i] = x})

IsPreMarker(r) ==
    r.is_job_response /\ r.status = "IN_PROGRESS" /\ r.message = "Starting job execution"

\* The log of the Job before the last operation, and what that operation added.
LogBefore == call.before.responses
Added == SubSeq(job.responses, Len(LogBefore) + 1, Len(job.responses))

\* C1: handle_event follows the seven-row transition table: a (status, event)
\* pair of the table moves the entity to the row's target, and every other
\* pair, every event in COMPLETED, FAILED or CANCELLED included, fails with
\* TransitionError.
C1_TransitionTable ==
    lc.steps > 0 =>
        LET from == lc.before
            ev == lc.event
            target ==
                CASE from = "STOPPED" /\ ev = "START_WORK" -> "IN_PROGRESS"
                  [] from = "IN_PROGRESS" /\ ev = "INPUT_REQUESTED" -> "AWAITING"
                  [] from = "AWAITING" /\ ev = "INPUT_RECEIVED" -> "IN_PROGRESS"
                  [] from = "IN_PROGRESS" /\ ev = "SUCCESSFULLY_DONE" -> "COMPLETED"
                  [] from = "IN_PROGRESS" /\ ev = "FAILED_EVENT" -> "FAILED"
                  [] from = "IN_PROGRESS" /\ ev = "CANCEL_REQUESTED" -> "CANCELLING"
                  [] from = "CANCELLING" /\ ev = "CANCELLED_EVENT" -> "CANCELLED"
                  [] OTHER -> None
        IN  IF target = None
            THEN lc.error = "TransitionError"
            ELSE lc.error = None /\ entity.status = target

C1_Witness ==
    /\ lc.steps = 2
    /\ lc.before = "COMPLETED"
    /\ lc.event = "INPUT_RECEIVED"
    /\ lc.error = "TransitionError"

\* C2: once a Job's status is COMPLETED, FAILED or CANCELLED, a later
\* job_start on it changes neither its status nor its response log.
C2_TerminalJobImmutable ==
    (call.op = "job_start" /\ call.before.status \in {"COMPLETED", "FAILED", "CANCELLED"})
        => job = call.before

\* C3: when the method dispatched by job_start raises, the log gains, after
\* the pre-marker, exactly one FAILED response whose error is the exception
\* raised, and that same exception reaches the caller.
C3_MethodRaises ==
    (call.op = "job_start" /\ call.invoked # None /\ call.beh.kind = "raises") =>
        /\ call.raised = call.beh.exc
        /\ call.raised # None
        /\ Len(Added) = 2
        /\ IsPreMarker(Added[1])
        /\ Added[2].status = "FAILED"
        /\ Added[2].error = call.beh.exc
        /\ IsPrefix(LogBefore, job.responses)

C3_Witness ==
    /\ call.op = "job_start"
    /\ call.invoked # None
    /\ call.beh.kind = "raises"
    /\ call.beh.exc = "RuntimeError"
    /\ Last(job.responses).error = "RuntimeError"

\* C4: job_start invokes the job-finished hook if and only if the method
\* returned a response with status COMPLETED, FAILED, CANCELLED or CANCELLING;
\* then it invokes it once, after that response was appended to the log.
C4_FinishedHook ==
    call.op = "job_start" =>
        LET returnedFinish ==
                /\ call.returned.is_job_response
                /\ call.returned.status \in {"COMPLETED", "FAILED", "CANCELLED", "CANCELLING"}
            n == Occurrences(call.trace, "service_job_finished")
        IN  /\ n = (IF returnedFinish THEN 1 ELSE 0)
            /\ call.hooks = n
            /\ returnedFinish =>
                 /\ call.logAtHook = LogBefore \o <<Added[1], call.returned>>
                 /\ \E i \in DOMAIN call.trace :
                        /\ i > 1
                        /\ call.trace[i] = "service_job_finished"
                        /\ call.trace[i - 1] = "add_response"

C4_Witness ==
    /\ call.op = "job_start"
    /\ call.returned.status = "CANCELLING"
    /\ call.hooks = 1
    /\ Last(call.logAtHook) = call.returned

\* C5: when the method returns a response with status AWAITING, the response
\* is appended to the log, the Job's status is then IN_PROGRESS or AWAITING,
\* and the job-finished hook is not invoked.
C5_Awaiting ==
    (call.op = "job_start" /\ call.returned.is_job_response
        /\ call.returned.status = "AWAITING") =>
        /\ Len(Added) = 2
        /\ Added[2] = call.returned
        /\ job.status \in {"IN_PROGRESS", "AWAITING"}
        /\ call.hooks = 0
        /\ Occurrences(call.trace, "service_job_finished") = 0

C5_Witness ==
    /\ call.op = "job_start"
    /\ call.returned.is_job_response
    /\ call.returned.status = "AWAITING"
    /\ call.before.status = "COMPLETED"
    /\ Last(job.responses).status = "AWAITING"

\* C6: when the method returns a response with status STOPPED or IN_PROGRESS,
\* job_start appends nothing after the pre-marker, does not invoke the
\* job-finished hook and returns normally; the Job stays open.
C6_OtherStatus ==
    (call.op = "job_start" /\ call.returned.is_job_response
        /\ call.returned.status \in {"STOPPED", "IN_PROGRESS"}) =>
        /\ Len(Added) = 1
        /\ IsPreMarker(Added[1])
        /\ call.hooks = 0
        /\ call.raised = None
        /\ job.status \notin {"COMPLETED", "FAILED", "CANCELLED"}

C6_Witness ==
    /\ call.op = "job_start"
    /\ call.returned.is_job_response
    /\ call.returned.status = "STOPPED"
    /\ call.raised = None
    /\ Len(job.responses) = Len(LogBefore) + 1

\* C7: the response log is append-only: every operation (job_start, job_stop,
\* job_status, chat, succeeding or failing) leaves the log it found as a
\* prefix of the log it leaves.
C7_AppendOnly == [][IsPrefix(job.responses, job'.responses)]_vars

C7_Witness ==
    /\ calls = 2
    /\ call.op = "job_stop"
    /\ call.raised # None
    /\ Len(job.responses) = 2
    /\ Last(job.responses).status = "FAILED"

\* C8: job_start sends the confirmation event (with an Account), then appends
\* the pre-marker, then invokes the method: when the method is invoked the log
\* ends with the pre-marker, and all that the dispatch adds comes after it.
C8_StartOrder ==
    (call.op = "job_start" /\ call.invoked # None) =>
        LET head == IF supervisor_account
                    THEN <<"send_event", "add_response", "invoke">>
                    ELSE <<"add_response", "invoke">>
        IN  /\ IsPrefix(head, call.trace)
            /\ call.events = IF supervisor_account THEN <<"job.start.confirmation">> ELSE <<>>
            /\ Len(call.logAtInvoke) = Len(LogBefore) + 1
            /\ Len(call.logAtInvoke) >= 1
            /\ IsPreMarker(Last(call.logAtInvoke))
            /\ IsPrefix(LogBefore, call.logAtInvoke)
            /\ IsPrefix(call.logAtInvoke, job.responses)

C8_Witness ==
    /\ call.op = "job_start"
    /\ call.invoked # None
    /\ supervisor_account
    /\ Len(account_events) = 2
    /\ Len(job.responses) = 4

\* C9 (as stated): a DispatchError (unresolvable reference, result that is no
\* JobResponse) and the NotImplemented failure are not caught by job_start: no
\* FAILED response is appended for them.
C9_OnlyMethodErrorsRecorded ==
    (call.op = "job_start" /\ call.origin \in {"resolve", "shape", "async"}) =>
        /\ Len(Added) = 1
        /\ IsPreMarker(Added[1])

\* C9 (amended): an exception of the method body, an unresolvable reference, a
\* result that is no JobResponse and the NotImplementedError of job_start are
\* each caught by job_start, recorded as one FAILED response holding the
\* exception, after the pre-marker, and raised again to the caller.
C9_DispatchFailuresRecorded ==
    (call.op = "job_start" /\ call.origin \in {"method", "resolve", "shape", "async"}) =>
        /\ call.raised # None
        /\ Len(Added) = 2
        /\ IsPreMarker(Added[1])
        /\ Added[2].status = "FAILED"
        /\ Added[2].error = call.raised

C9_Witness ==
    /\ call.op = "job_start"
    /\ call.origin = "shape"
    /\ call.raised = "TypeError"
    /\ Last(job.responses).status = "FAILED"
    /\ Last(job.responses).error = "TypeError"

\* C10: job_start fails with NotImplemented, without invoking the method, when
\* the descriptor it dispatches has is_async true, and never rejects as
\* unimplemented a descriptor whose is_async is false.
C10_AsyncPerDescriptor ==
    (call.op = "job_start" /\ call.origin \notin {"account", "lookup"}) =>
        LET action == job_start_action(call.method_name)
        IN  IF action.is_async
            THEN call.raised = "NotImplementedError" /\ call.invoked = None
            ELSE call.raised # "NotImplementedError"

\* C11: on every dispatch path, a callable that returns a value that is not a
\* JobResponse makes the dispatch fail with an error; the value is neither
\* handed back to the caller nor appended to the Job's log.
C11_NonJobResponseRejected ==
    (call.invoked # None /\ call.beh.kind = "returns" /\ ~call.beh.value.is_job_response) =>
        /\ call.raised # None
        /\ call.raised = "TypeError"
        /\ call.returned = NoResponse
        /\ \A i \in DOMAIN job.responses :
              job.responses[i].is_job_response /\ job.responses[i] # call.beh.value

C11_Witness ==
    /\ call.op = "job_start"
    /\ call.method_name = "custom-1"
    /\ call.invoked = "control.custom"
    /\ call.beh.value = NotAJobResponse
    /\ call.raised = "TypeError"

\* C12: the keyword arguments of the method are the static params overlaid by
\* 'fields', 'context' and 'agent_parameters' of the call: these three keys
\* hold the call's values whatever the static params hold, and every other
\* static param is passed unchanged.
C12_ParamsOverlay ==
    kw.built =>
        LET own == {"fields", "context", "agent_parameters"}
            static == kw.static.items
        IN  /\ DOMAIN kw.received = DOMAIN static \cup own
            /\ kw.received["fields"] = kw.job_fields
            /\ kw.received["context"] = kw.context
            /\ kw.received["agent_parameters"] = kw.agent_parameters
            /\ \A k \in DOMAIN static \ own : kw.received[k] = static[k]

C12_Witness ==
    /\ kw.built
    /\ ~kw.static.is_none
    /\ DOMAIN kw.static.items = {"verbose", "fields", "agent_parameters"}
    /\ kw.job_fields = "fields-2"
    /\ kw.received["fields"] = "fields-2"
    /\ kw.received["verbose"] = "static"

\* C13: without an Account job_start sends no event and does not fail for
\* that; the pre-marker is appended and the method dispatched, with the
\* outcome the same call has with an Account that accepts the event.
C13_NoAccount ==
    (call.op = "job_start" /\ ~supervisor_account) =>
        /\ call.events = <<>>
        /\ account_events = <<>>
        /\ Occurrences(call.trace, "send_event") = 0
        /\ call.origin # "account"
        /\ Len(Added) >= 1
        /\ IsPreMarker(Added[1])
        /\ \E hook_ok \in BOOLEAN :
              LET w == job_start_rest(job_start_begin_with(TRUE, call.before, TRUE),
                                      call.method_name, call.beh, hook_ok)
              IN  /\ w.job = job
                  /\ w.raised = call.raised
                  /\ w.returned = call.returned
                  /\ w.invoked = call.invoked
                  /\ w.params = call.params
                  /\ w.hooks = call.hooks
                  /\ w.trace = <<"send_event">> \o call.trace

C13_Witness ==
    /\ call.op = "job_start"
    /\ ~supervisor_account
    /\ call.invoked = "control.job_start"
    /\ call.returned.status = "COMPLETED"
    /\ call.hooks = 1
    /\ Len(job.responses) = 4

\* C14: chat fails with ValueError and invokes nothing when no chat
\* descriptor is configured; with one, it dispatches that descriptor's method
\* with the keyword arguments context and message of the call.
C14_Chat ==
    call.op = "chat" =>
        IF methods.chat = NoMethod
        THEN /\ call.raised = "ValueError"
             /\ call.invoked = None
             /\ Occurrences(call.trace, "invoke") = 0
        ELSE call.beh.kind # "unresolvable" =>
                /\ call.invoked = methods.chat.method
                /\ DOMAIN call.params = {"context", "message"}
                /\ call.params["context"] = call.args["context"]
                /\ call.params["message"] = call.args["message"]

C14_Witness ==
    /\ call.op = "chat"
    /\ methods.chat # NoMethod
    /\ call.invoked = "control.chat"
    /\ call.params["message"] = "message-2"
    /\ call.raised = None

\* C15: job_stop, job_status and chat, failing or not, leave the Job (status
\* and log), the events sent to the Account, the count of job-finished
\* notifications and every lifecycle-driven entity as they were.
C15_DirectDispatchFrame ==
    [][(calls' = calls + 1 /\ call'.op \in {"job_stop", "job_status", "chat"}) =>
          /\ job' = job
          /\ account_events' = account_events
          /\ finished' = finished
          /\ entity' = entity
          /\ case' = case]_vars

C15_Witness ==
    /\ calls = 2
    /\ call.op = "job_stop"
    /\ call.returned.status = "COMPLETED"
    /\ job.status = "AWAITING"
    /\ Len(job.responses) = 2

\* C16: the Case that Account.send_start_case sees and the Case that
\* Case.start returns are IN_PROGRESS: a Case created by start() is never seen
\* in STOPPED.
C16_StartInProgress ==
    /\ \A i \in DOMAIN account_log :
          account_log[i].kind = "start_case" => account_log[i].status = "IN_PROGRESS"
    /\ (ccall.op = "start" /\ ccall.raised = None) =>
          case.exists /\ case.status = "IN_PROGRESS"
    /\ case.exists => case.status # "STOPPED"

C16_Witness ==
    /\ ccall.op = "start"
    /\ ccall.raised = None
    /\ case.status = "IN_PROGRESS"
    /\ Len(account_log) = 2
    /\ ~account_log[1].ok
    /\ account_log[2].ok

\* The successful update() / human_input() calls so far.
SuccessfulUpdates ==
    {i \in DOMAIN account_log :
        account_log[i].kind = "update_case" /\ account_log[i].ok /\ account_log[i].obj # 0}

\* C17: after N successful update() / human_input() calls the updates list
\* has length N and its entry at position i (from 1) has index i.
C17_UpdateIndices ==
    case.exists =>
        /\ Len(case.updates) = Cardinality(SuccessfulUpdates)
        /\ \A i \in DOMAIN case.updates : heap[case.updates[i]].index = i

\* The updates the Account accepted, in order: those of update() and
\* human_input() and the final one of close().
IsAcceptedUpdate(e) == e.kind = "update_case" /\ e.ok
AcceptedUpdates == SelectSeq(account_log, IsAcceptedUpdate)

\* C18: the indices the Case assigns and sends are strictly increasing from 1:
\* no index is given to two updates, the final update of close() included.
C18_IndicesIncrease ==
    /\ AcceptedUpdates # <<>> => AcceptedUpdates[1].update.index = 1
    /\ \A i, j \in DOMAIN AcceptedUpdates :
          i < j => AcceptedUpdates[i].update.index < AcceptedUpdates[j].update.index

\* C19: update() sets the index, then notifies the Account, then appends: the
\* Account is called with an update of index k while the updates list holds
\* k - 1 entries, and the update is appended after the call returned.
C19_UpdateOrder ==
    ccall.op = "update" =>
        /\ Len(ccall.sent) = 1
        /\ LET e == ccall.sent[1]
           IN  /\ e.kind = "update_case"
               /\ e.obj = ccall.obj
               /\ e.len = Len(ccall.before.updates)
               /\ e.update.index = e.len + 1
               /\ e.update.index = heap[ccall.obj].index
        /\ ccall.raised = None => case.updates = Append(ccall.before.updates, ccall.obj)

C19_Witness ==
    /\ ccall.op = "update"
    /\ ccall.raised = None
    /\ ccall.sent[1].update.index = 2
    /\ ccall.sent[1].len = 1
    /\ Len(case.updates) = 2

\* C20 (as stated): when the Account notification raises during update(), the
\* update is appended to the updates list all the same.
C20_AppendedDespiteFailure ==
    (ccall.op = "update" /\ ccall.raised = "AccountError") =>
        case.updates = Append(ccall.before.updates, ccall.obj)

\* C20 (amended): when the Account notification raises during update(), the
\* exception reaches the caller and the updates list is left as it was; the
\* update carries the index it was given and is not appended.
C20_NotAppendedOnFailure ==
    (ccall.op = "update" /\ ccall.sent # <<>> /\ ~ccall.sent[1].ok) =>
        /\ ccall.raised = "AccountError"
        /\ case = ccall.before
        /\ heap[ccall.obj].index = Len(case.updates) + 1

C20_Witness ==
    /\ ccall.op = "update"
    /\ ccall.raised = "AccountError"
    /\ Len(ccall.before.updates) = 1
    /\ Len(case.updates) = 1
    /\ heap[ccall.obj].index = 2

\* C21: a close() that returns has set total_cost to final_cost whenever a
\* final_cost was supplied, zero included, and to the sum of the costs of the
\* recorded updates (a missing cost counting 0) when none was supplied.
C21_TotalCost ==
    (ccall.op = "close" /\ ccall.raised = None) =>
        case.total_cost = IF ccall.args.final_cost # NoCost
                          THEN ccall.args.final_cost
                          ELSE calculated_cost(ccall.before, heap)

\* C22: close(result) on an IN_PROGRESS Case leaves it COMPLETED with
\* final_delivery = result and finished_at set, and calls the Account once,
\* with a final update of payload result and index (updates so far) + 1; with
\* no final_cost, total_cost is the sum of the costs of the updates, so one
\* update of cost c gives total_cost = c.
C22_Close ==
    (ccall.op = "close" /\ ccall.before.status = "IN_PROGRESS") =>
        /\ ccall.raised \in {None, "AccountError"}
        /\ case.status = "COMPLETED"
        /\ case.final_delivery = ccall.args.case_result
        /\ case.finished_at # None
        /\ case.updates = ccall.before.updates
        /\ Len(ccall.sent) = 1
        /\ LET e == ccall.sent[1]
           IN  /\ e.kind = "update_case"
               /\ e.status = "COMPLETED"
               /\ e.update.is_final
               /\ e.update.payload = ccall.args.case_result
               /\ e.update.index = Len(ccall.before.updates) + 1
               /\ ccall.raised = None <=> e.ok
        /\ ccall.args.final_cost = NoCost =>
              /\ case.total_cost = calculated_cost(ccall.before, heap)
              /\ (Len(case.updates) = 1 /\ heap[case.updates[1]].cost # NoCost) =>
                    case.total_cost = heap[case.updates[1]].cost

C22_Witness ==
    /\ ccall.op = "close"
    /\ ccall.raised = None
    /\ ccall.before.status = "IN_PROGRESS"
    /\ ccall.args.final_cost = NoCost
    /\ Len(case.updates) = 1
    /\ heap[case.updates[1]].cost = 5
    /\ case.total_cost = 5
    /\ case.status = "COMPLETED"
    /\ Last(account_log).update.index = 2

\* C23: resume() and receive_human_input() apply INPUT_RECEIVED: an AWAITING
\* Case becomes IN_PROGRESS and nothing else of it changes; in any other
\* status the call fails with TransitionError and the Case is unchanged.
C23_InputReceived ==
    ccall.op \in {"resume", "receive_human_input"} =>
        IF ccall.before.status = "AWAITING"
        THEN /\ ccall.raised = None
             /\ case = [ccall.before EXCEPT !.status = "IN_PROGRESS"]
        ELSE /\ ccall.raised = "TransitionError"
             /\ case = ccall.before

\* The remote update just made had a parameter set to work on and a
\* payload that decrypted.
Decrypted ==
    vault.steps > 0 /\ vault.has_setup /\ ~vault.received.is_none /\ vault.received.ok

\* The position of the last record of the payload that names n (and, with
\* env_only, is flagged is_environment); 0 when there is none.
LastRecord(records, n, env_only) ==
    LET I == {i \in DOMAIN records :
                 records[i].name = n /\ (env_only => records[i].is_environment)}
    IN  IF I = {} THEN 0 ELSE CHOOSE i \in I : \A j \in I : j <= i

C25_EnvironmentOnlyWhenFlagged ==
    (Decrypted /\ vault.raised = None) =>
        /\ DOMAIN vault.environ \subseteq DOMAIN vault.before.environ \cup ParameterNames
        /\ \A n \in ParameterNames :
              LET records == vault.received.payload
                  i == LastRecord(records, n, FALSE)
                  j == LastRecord(records, n, TRUE)
              IN  /\ vault.definitions[n] =
                        IF i = 0 THEN vault.before.definitions[n] ELSE records[i].value
                  /\ IF j = 0
                     THEN /\ n \in DOMAIN vault.environ <=> n \in DOMAIN vault.before.environ
                          /\ n \in DOMAIN vault.environ =>
                                vault.environ[n] = vault.before.environ[n]
                     ELSE /\ n \in DOMAIN vault.environ
                          /\ vault.environ[n] = records[j].value

C25_Witness ==
    /\ Decrypted
    /\ vault.raised = None
    /\ vault.received.payload =
          <<ParameterRecord("parameter1", "new_value1", TRUE),
            ParameterRecord("parameter2", "new_value2", FALSE)>>
    /\ vault.definitions = [n \in ParameterNames |->
                               IF n = "parameter1" THEN "new_value1" ELSE "new_value2"]
    /\ DOMAIN vault.environ = {"parameter1"}
    /\ vault.environ["parameter1"] = "new_value1"

\* The grammar [a-z0-9]+(-[a-z0-9]+)*: groups of letters and digits, one
\* hyphen between two groups.
IsSlug(key) ==
    /\ key # <<>>
    /\ \A i \in DOMAIN key : key[i] \in {"a", "-"}
    /\ key[1] = "a"
    /\ key[Len(key)] = "a"
    /\ \A i \in 1..(Len(key) - 1) : key[i] = "-" => key[i + 1] = "a"

\* The positions of the keys of the map that break the grammar or the bound.
Offending(keys) == {i \in DOMAIN keys : ~IsSlug(keys[i]) \/ Len(keys[i]) > MaxKeyLen}

\* C27: a custom map is accepted exactly when every key matches the grammar
\* and has at most 50 characters (None and the empty map are accepted);
\* otherwise the error names the first offending key in map order and the
\* rule it broke, the grammar before the length.
C27_CustomKeys ==
    reg.built =>
        LET keys == reg.custom.keys
        IN  /\ reg.accepted <=> Offending(keys) = {}
            /\ ~reg.accepted =>
                  LET i == CHOOSE i \in Offending(keys) : \A j \in Offending(keys) : i <= j
                  IN  /\ reg.key = keys[i]
                      /\ reg.rule = IF ~IsSlug(keys[i]) THEN "not a valid slug" ELSE "too long"

\* No update() call has started while another one was in flight.
SingleWriter == \A t \in Threads : ~race[t].overlapped

\* With one operation in flight at a time, every entry of updates has the
\* index of its position.
C28_SingleWriterIndices ==
    SingleWriter => \A i \in DOMAIN case.updates : heap[case.updates[i]].index = i

\* Two update() calls of which one started while the other was between its
\* first statement and its append, both completed: both updates have the same
\* index and are the last two entries of updates.
C28_RaceSharesIndex ==
    (~SingleWriter /\ \A t \in Threads : race[t].pc = "done" /\ race[t].raised = None) =>
        /\ Len(case.updates) = 2
        /\ {case.updates[1], case.updates[2]} = {race[t].obj : t \in Threads}
        /\ heap[case.updates[1]].index = heap[case.updates[2]].index

\* C28: update() is not synchronized: with at most one operation in flight
\* per Case the indices in updates are the positions; two interleaved
\* update() calls give both updates the same index.
C28_Unsynchronized ==
    /\ C28_SingleWriterIndices
    /\ C28_RaceSharesIndex

\* Both interleaved calls, on two objects, have completed.
RaceCompleted ==
    /\ ~SingleWriter
    /\ \A t \in Threads : race[t].pc = "done" /\ race[t].raised = None
    /\ race[1].obj # race[2].obj

\* C29: a job_start call appends one or two responses: the pre-marker, then
\* at most one of the response the method returned and a FAILED response; so
\* nothing is appended after a finished response of the method, also when
\* the job-finished hook raises.
C29_AtMostTwoResponses ==
    call.op = "job_start" =>
        /\ Len(Added) \in 1..2
        /\ IsPreMarker(Added[1])
        /\ Len(Added) = 2 =>
              \/ Added[2] = call.returned
              \/ Added[2].status = "FAILED" /\ Added[2].error = call.raised

\* C30: whenever job_start raises, whatever the cause, the Job's log ends with
\* a FAILED response that holds an error.
C30_FailureAlwaysRecorded ==
    (call.op = "job_start" /\ call.raised # None) =>
        /\ job.responses # <<>>
        /\ Last(job.responses).status = "FAILED"
        /\ Last(job.responses).error # None

TerminalStatuses == {"COMPLETED", "FAILED", "CANCELLED"}

\* C31: a close() that fails with TransitionError leaves the Case as it was
\* (status, total_cost, final_delivery, finished_at, updates) and sends
\* nothing to the Account.
C31_FailedCloseChangesNothing ==
    (ccall.op = "close" /\ ccall.raised = "TransitionError") =>
        /\ case = ccall.before
        /\ ccall.sent = <<>>

\* C32: after every Case operation the updates the Account has received
\* through send_update_case are the entries of the updates list, in the same
\* order, the final update of close() included.
C32_LocalLogMatchesAccount ==
    case.exists =>
        /\ Len(AcceptedUpdates) = Len(case.updates)
        /\ \A i \in DOMAIN AcceptedUpdates : AcceptedUpdates[i].obj = case.updates[i]

\* C33: on a Case in a terminal status no operation appends an update, sends
\* one to the Account or changes total_cost, final_delivery or finished_at.
C33_TerminalCaseImmutable ==
    (ccall.op \in {"update", "human_input", "resume", "receive_human_input", "close"}
        /\ ccall.before.status \in TerminalStatuses) =>
        /\ case = ccall.before
        /\ ccall.sent = <<>>

\* C34: human_input() on an IN_PROGRESS Case puts it in AWAITING, so that a
\* resume() that follows succeeds.
C34_HumanInputPauses ==
    (ccall.op = "human_input" /\ ccall.raised = None /\ ccall.before.status = "IN_PROGRESS") =>
        case.status = "AWAITING"

\* C40: finished_at and final_delivery are set only on a COMPLETED Case, and
\* a close() that made the Case COMPLETED has set both.
C40_FinishedOnlyWhenCompleted ==
    /\ (case.finished_at # None \/ case.final_delivery # None) => case.status = "COMPLETED"
    /\ (ccall.op = "close" /\ ccall.before.status # "COMPLETED" /\ case.status = "COMPLETED") =>
          case.finished_at # None /\ case.final_delivery = ccall.args.case_result

C40_Witness ==
    /\ ccall.op = "close"
    /\ ccall.before.status = "IN_PROGRESS"
    /\ ccall.raised = "AccountError"
    /\ case.status = "COMPLETED"
    /\ case.final_delivery = ccall.args.case_result
    /\ case.finished_at # None

\* C35: an answer for a job that is not registered, or for a Case that
\* is not AWAITING, gets an error response; no update is appended, nothing is
\* sent to the Account and the Case is as before.
C35_AnswerRejected ==
    (ccall.op = "update_case_with_answer"
        /\ (~ccall.route.job_found \/ (ccall.before.exists /\ ccall.before.status # "AWAITING"))) =>
        /\ ccall.route.status = "error"
        /\ ccall.route.code = (IF ccall.route.job_found THEN 400 ELSE 404)
        /\ case = ccall.before
        /\ ccall.sent = <<>>

C35_Witness ==
    /\ ccall.op = "update_case_with_answer"
    /\ ccall.route.job_found
    /\ ccall.before.status = "IN_PROGRESS"
    /\ ccall.before.updates # <<>>
    /\ ccall.route.code = 400
    /\ case = ccall.before

\* C36: an answer for an AWAITING Case of a registered job, with the Account
\* reachable, appends exactly one update (the answer, is_final false, the
\* next index), applies INPUT_RECEIVED and returns success with case_status
\* IN_PROGRESS, so that a second answer is rejected.
C36_AnswerAccepted ==
    (ccall.op = "update_case_with_answer"
        /\ ccall.route.job_found
        /\ (ccall.before.exists => ccall.before.status = "AWAITING")
        /\ \A i \in DOMAIN ccall.sent : ccall.sent[i].ok) =>
        /\ Len(case.updates) = Len(ccall.before.updates) + 1
        /\ heap[Last(case.updates)] =
              [AnswerUpdate EXCEPT !.index = Len(ccall.before.updates) + 1]
        /\ ccall.route.status = "success"
        /\ ccall.route.case_status = "IN_PROGRESS"
        /\ case.status = "IN_PROGRESS"

\* The last call on the Agent failed: it raised, or the route answered with
\* the error response.
AgentCallFailed == vault.op # None /\ vault.raised # None

\* C37: a remote update that fails leaves server_encrypted_parameters,
\* server_agent_id, server_agent_status and server_agent_onboarding_status
\* as they were before the call.
C37_AllOrNothing ==
    AgentCallFailed => AgentAttributes(vault) = vault.was

\* update_agent_from_server left by one of its early exits: no supervisor
\* account, no success from get_agent_by, or an id that differs.
EarlyExit ==
    /\ vault.op = "update_agent_from_server"
    /\ \/ ~vault.has_account
       \/ ~vault.reply.success
       \/ vault.was.server_agent_id # None /\ vault.was.server_agent_id # vault.reply.id

\* C38: on its early exits update_agent_from_server returns None (no
\* account, no success) or raises ValueError (differing id), and the four
\* attributes, the parameter values and the environment are unchanged and
\* nothing is decrypted.
C38_EarlyExitsChangeNothing ==
    EarlyExit =>
        /\ vault.returned = None
        /\ vault.raised = (IF vault.has_account /\ vault.reply.success THEN "ValueError" ELSE None)
        /\ AgentAttributes(vault) = vault.was
        /\ vault.definitions = vault.before.definitions
        /\ vault.environ = vault.before.environ
        /\ ~vault.decrypted

C38_Witness ==
    /\ EarlyExit
    /\ vault.has_account
    /\ vault.reply.success
    /\ vault.was.server_agent_id = "agent-1"
    /\ vault.reply.id = "agent-2"
    /\ vault.reply.onboarding_status = "configured"
    /\ vault.reply.parameters_encrypted.ok
    /\ vault.raised = "ValueError"

\* The registration returned asks for the parameters to be applied, and the
\* Agent can apply them.
Applies ==
    /\ vault.reply.onboarding_status = "configured"
    /\ ~vault.reply.parameters_encrypted.is_none
    /\ vault.has_setup

\* C39: past the early exits, update_agent_from_server decrypts exactly when
\* the onboarding status is "configured", parameters_encrypted is not empty
\* and the Agent has a parameters_setup; otherwise it returns the Agent with
\* id, status and onboarding status refreshed, and server_encrypted_parameters,
\* the parameter values and the environment unchanged.
C39_AppliesOnlyWhenConfigured ==
    (vault.op = "update_agent_from_server" /\ ~EarlyExit) =>
        /\ vault.decrypted <=> Applies
        /\ ~Applies =>
              /\ vault.returned = "self"
              /\ vault.raised = None
              /\ vault.server_agent_id = vault.reply.id
              /\ vault.server_agent_status = vault.reply.status
              /\ vault.server_agent_onboarding_status = vault.reply.onboarding_status
              /\ vault.encrypted = vault.was.server_encrypted_parameters
              /\ vault.definitions = vault.before.definitions
              /\ vault.environ = vault.before.environ

C39_Witness ==
    /\ vault.op = "update_agent_from_server"
    /\ ~EarlyExit
    /\ vault.has_setup
    /\ vault.reply.onboarding_status = "pending"
    /\ vault.reply.parameters_encrypted.ok
    /\ vault.reply.parameters_encrypted.payload # <<>>
    /\ vault.was.server_agent_onboarding_status = "configured"
    /\ vault.server_agent_onboarding_status = "pending"
    /\ vault.returned = "self"

====
